---- MODULE Spec2Model ----
(***************************************************************************)
(* Model of src/src/persistence.rs: the license key codec                  *)
(* (LicenseData::to_key / LicenseData::try_from_key), the attribute-driven *)
(* validation of LicenseData / LicensePayloadData / LicensedProductData    *)
(* and the bridge to and from the domain License.                          *)
(*                                                                         *)
(* Text and byte strings are sequences of byte values (0..255); a Rust     *)
(* String is the sequence of its UTF-8 bytes (the model's texts are        *)
(* ASCII).  Integers are naturals below 2^31.                              *)
(***************************************************************************)
EXTENDS Integers, Sequences, FiniteSets, TLC

VARIABLES data, key, license, last, prev

vars == <<data, key, license, last, prev>>

(***************************************************************************)
(* Option<T> and Result<T, GenericError>                                   *)
(***************************************************************************)
None == <<>>
Some(x) == <<x>>

\* anyhow::Error keeps the error it was made from; `type` is that error's type
\* and `errors` the content of a validator::ValidationErrors.
GenericError(type, errors) == [type |-> type, errors |-> errors]

NoError == GenericError("none", {})
DecodeError == GenericError("base64::DecodeError", {})
RmpDecodeError == GenericError("rmp_serde::decode::Error", {})
RmpEncodeError == GenericError("rmp_serde::encode::Error", {})
Unmodelled == GenericError("unmodelled", {})

Ok(v) == [ok |-> TRUE, val |-> <<v>>, err |-> NoError]
Err(e) == [ok |-> FALSE, val |-> <<>>, err |-> e]
Unwrap(r) == r.val[1]

(***************************************************************************)
(* base64: the URL_SAFE_NO_PAD engine (URL-safe alphabet, no padding       *)
(* written, padding refused when decoding, non-zero trailing bits refused) *)
(***************************************************************************)
Pow2(n) == IF n = 0 THEN 1 ELSE IF n = 2 THEN 4 ELSE IF n = 4 THEN 16
           ELSE IF n = 6 THEN 64 ELSE IF n = 8 THEN 256 ELSE 1024

\* the symbol of a 6-bit value in the URL-safe alphabet: A-Z a-z 0-9 - _
UrlSafeSymbol(v) ==
    IF v < 26 THEN 65 + v
    ELSE IF v < 52 THEN 97 + (v - 26)
    ELSE IF v < 62 THEN 48 + (v - 52)
    ELSE IF v = 62 THEN 45 ELSE 95

\* the 6-bit value of a symbol, -1 for a byte outside the alphabet
UrlSafeValue(c) ==
    IF c >= 65 /\ c <= 90 THEN c - 65
    ELSE IF c >= 97 /\ c <= 122 THEN c - 97 + 26
    ELSE IF c >= 48 /\ c <= 57 THEN c - 48 + 52
    ELSE IF c = 45 THEN 62
    ELSE IF c = 95 THEN 63
    ELSE -1

\* the symbol of a 6-bit value in the standard alphabet: A-Z a-z 0-9 + /
StandardSymbol(v) ==
    IF v = 62 THEN 43 ELSE IF v = 63 THEN 47 ELSE UrlSafeSymbol(v)

\* the 6-bit values of the bits of `bytes`, the last one zero-filled
Sextets(bytes) ==
    LET n == Len(bytes)
        m == (4 * n + 2) \div 3
        Byte(i) == IF i <= n THEN bytes[i] ELSE 0
        Sextet(j) ==
            LET bit == 6 * j
                k == bit \div 8
                off == bit % 8
                word == Byte(k + 1) * 256 + Byte(k + 2)
            IN (word \div Pow2(10 - off)) % 64
    IN SubSeq([j \in 1..m |-> Sextet(j - 1)], 1, m)

\* BASE_64_ENGINE.encode
Base64Encode(bytes) ==
    LET s == Sextets(bytes)
    IN SubSeq([j \in 1..Len(s) |-> UrlSafeSymbol(s[j])], 1, Len(s))

\* base64::engine::general_purpose::STANDARD.encode: '+' '/' and '=' padding
Base64EncodeStandard(bytes) ==
    LET s == Sextets(bytes)
        pad == (3 - (Len(bytes) % 3)) % 3
    IN [j \in 1..Len(s) |-> StandardSymbol(s[j])] \o [j \in 1..pad |-> 61]

\* the bytes of a text of alphabet symbols whose length is not 1 mod 4
SextetBytes(text) ==
    LET m == Len(text)
        n == (6 * m) \div 8
        Val(j) == IF j <= m THEN UrlSafeValue(text[j]) ELSE 0
        ByteAt(i) ==
            LET bit == 8 * i
                k == bit \div 6
                off == bit % 6
                word == Val(k + 1) * 64 + Val(k + 2)
            IN (word \div Pow2(4 - off)) % 256
    IN SubSeq([i \in 1..n |-> ByteAt(i - 1)], 1, n)

\* the bits of the last symbol that belong to no byte
TrailingBits(text) ==
    LET m == Len(text)
        spare == 6 * m - 8 * ((6 * m) \div 8)
    IN IF m = 0 THEN 0 ELSE UrlSafeValue(text[m]) % Pow2(spare)

\* a decoder that lets non-zero trailing bits pass (decode_allow_trailing_bits)
Base64DecodeLenient(text) ==
    IF \E j \in 1..Len(text) : UrlSafeValue(text[j]) = -1 THEN Err(DecodeError)
    ELSE IF Len(text) % 4 = 1 THEN Err(DecodeError)
    ELSE Ok(SextetBytes(text))

\* BASE_64_ENGINE.decode
Base64Decode(text) ==
    IF \E j \in 1..Len(text) : UrlSafeValue(text[j]) = -1 THEN Err(DecodeError)
    ELSE IF Len(text) % 4 = 1 THEN Err(DecodeError)
    ELSE IF TrailingBits(text) # 0 THEN Err(DecodeError)
    ELSE Ok(SextetBytes(text))

(***************************************************************************)
(* The persisted data model (LicenseData, LicensePayloadData,              *)
(* LicensedProductData), the domain objects of crate::runtime, and the     *)
(* field names serde writes.                                               *)
(***************************************************************************)
LicenseKey(raw_key) == raw_key

LicensedProductData(id, min_version, max_version) ==
    [id |-> id, min_version |-> min_version, max_version |-> max_version]

LicensePayloadData(name, email, kind, created_on, products) ==
    [name |-> name, email |-> email, kind |-> kind, created_on |-> created_on,
     products |-> products]

LicenseData(payload, signature) == [payload |-> payload, signature |-> signature]

\* crate::runtime::LicenseKind, a closed enumeration of unit variants
LicenseKind == {"Personal", "Commercial"}

\* the variant name serde writes for a kind
VariantName(kind) ==
    IF kind = "Personal" THEN <<80, 101, 114, 115, 111, 110, 97, 108>>
    ELSE <<67, 111, 109, 109, 101, 114, 99, 105, 97, 108>>

\* crate::runtime::LicensedProduct, LicensePayload and License::new
LicensedProduct(id, min_version, max_version) ==
    [id |-> id, min_version |-> min_version, max_version |-> max_version]

LicensePayload(name, email, kind, created_on, products) ==
    [name |-> name, email |-> email, kind |-> kind, created_on |-> created_on,
     products |-> products]

License(payload, signature) == [payload |-> payload, signature |-> signature]

\* "payload", "signature"
LicenseDataFields ==
    << <<112, 97, 121, 108, 111, 97, 100>>,
       <<115, 105, 103, 110, 97, 116, 117, 114, 101>> >>

\* "name", "email", "kind", "created_on", "products"
LicensePayloadDataFields ==
    << <<110, 97, 109, 101>>,
       <<101, 109, 97, 105, 108>>,
       <<107, 105, 110, 100>>,
       <<99, 114, 101, 97, 116, 101, 100, 95, 111, 110>>,
       <<112, 114, 111, 100, 117, 99, 116, 115>> >>

\* "id", "min_version", "max_version"
LicensedProductDataFields ==
    << <<105, 100>>,
       <<109, 105, 110, 95, 118, 101, 114, 115, 105, 111, 110>>,
       <<109, 97, 120, 95, 118, 101, 114, 115, 105, 111, 110>> >>

(***************************************************************************)
(* rmp_serde::to_vec_named: MessagePack, structs as maps keyed by field    *)
(* name, every value in its shortest form.                                 *)
(***************************************************************************)
\* an unsigned integer: positive fixint, uint 8, uint 16 or uint 32
WriteUint(n) ==
    IF n < 128 THEN <<n>>
    ELSE IF n < 256 THEN <<204, n>>
    ELSE IF n < 65536 THEN <<205, n \div 256, n % 256>>
    ELSE <<206, n \div 16777216, (n \div 65536) % 256, (n \div 256) % 256, n % 256>>

\* a string: fixstr, str 8 or str 16 header, then its bytes
WriteStr(s) ==
    (IF Len(s) < 32 THEN <<160 + Len(s)>>
     ELSE IF Len(s) < 256 THEN <<217, Len(s)>>
     ELSE <<218, Len(s) \div 256, Len(s) % 256>>) \o s

\* an array header: fixarray or array 16
WriteArrayLen(n) ==
    IF n < 16 THEN <<144 + n>> ELSE <<220, n \div 256, n % 256>>

\* the header of a struct's map: fixmap
WriteMapLen(n) == <<128 + n>>

SerializeProduct(p) ==
    WriteMapLen(3)
    \o WriteStr(LicensedProductDataFields[1]) \o WriteStr(p.id)
    \o WriteStr(LicensedProductDataFields[2]) \o WriteUint(p.min_version)
    \o WriteStr(LicensedProductDataFields[3]) \o WriteUint(p.max_version)

RECURSIVE SerializeProducts(_)
SerializeProducts(ps) ==
    IF ps = <<>> THEN <<>>
    ELSE SerializeProduct(Head(ps)) \o SerializeProducts(Tail(ps))

SerializePayload(p) ==
    WriteMapLen(5)
    \o WriteStr(LicensePayloadDataFields[1]) \o WriteStr(p.name)
    \o WriteStr(LicensePayloadDataFields[2]) \o WriteStr(p.email)
    \o WriteStr(LicensePayloadDataFields[3]) \o WriteStr(VariantName(p.kind))
    \o WriteStr(LicensePayloadDataFields[4]) \o WriteUint(p.created_on)
    \o WriteStr(LicensePayloadDataFields[5])
    \o WriteArrayLen(Len(p.products)) \o SerializeProducts(p.products)

SerializeLicenseData(d) ==
    WriteMapLen(2)
    \o WriteStr(LicenseDataFields[1]) \o SerializePayload(d.payload)
    \o WriteStr(LicenseDataFields[2]) \o WriteStr(d.signature)

\* a serializer that gives up on a string too long for a fixstr header
to_vec_named_fixstr(d) ==
    IF \E i \in 1..Len(d.payload.products) : Len(d.payload.products[i].id) >= 32
    THEN Err(RmpEncodeError)
    ELSE Ok(SerializeLicenseData(d))

\* rmp_serde::to_vec_named(self): writing to a Vec, lengths known: never Err
to_vec_named(d) == Ok(SerializeLicenseData(d))

(***************************************************************************)
(* rmp_serde::from_slice.  The bytes are read into MessagePack values,     *)
(* then the values are matched against the derived Deserialize of the      *)
(* three structs: a struct is a map keyed by field name, unknown keys are  *)
(* skipped, a missing or repeated field is an error, bytes after the value *)
(* are not looked at.  Forms the model's inputs never take (structs as     *)
(* arrays, integer keys, non-ASCII text, 64-bit and signed integers, bin,  *)
(* ext, float, 32-bit lengths) are reported as Unmodelled.                 *)
(***************************************************************************)
Value(t, n, s, items) == [t |-> t, n |-> n, s |-> s, items |-> items]

Parsed(v, next) == [ok |-> TRUE, val |-> v, next |-> next, unm |-> FALSE]
ParseFail == [ok |-> FALSE, val |-> Value("nil", 0, <<>>, <<>>), next |-> 0, unm |-> FALSE]
ParseUnmodelled == [ok |-> FALSE, val |-> Value("nil", 0, <<>>, <<>>), next |-> 0, unm |-> TRUE]

\* the big-endian number in the w bytes after position pos (w <= 2)
ReadLen(b, pos, w) ==
    IF w = 1 THEN b[pos + 1] ELSE b[pos + 1] * 256 + b[pos + 2]

\* the big-endian number in the 4 bytes after position pos, first byte < 128
ReadU32(b, pos) ==
    ((b[pos + 1] * 256 + b[pos + 2]) * 256 + b[pos + 3]) * 256 + b[pos + 4]

\* a string of len bytes starting at position from
ParseStr(b, from, len) ==
    IF from + len - 1 > Len(b) THEN ParseFail
    ELSE Parsed(Value("str", 0, SubSeq(b, from, from + len - 1), <<>>), from + len)

RECURSIVE ParseValue(_, _), ParseItems(_, _, _)

\* count values in a row, starting at position pos
ParseItems(b, pos, count) ==
    IF count = 0 THEN Parsed(<<>>, pos)
    ELSE LET h == ParseValue(b, pos)
         IN IF ~h.ok THEN h
            ELSE LET r == ParseItems(b, h.next, count - 1)
                 IN IF ~r.ok THEN r ELSE Parsed(<<h.val>> \o r.val, r.next)

ParseArray(b, from, count) ==
    LET r == ParseItems(b, from, count)
    IN IF ~r.ok THEN r ELSE Parsed(Value("array", 0, <<>>, r.val), r.next)

ParseMap(b, from, count) ==
    LET r == ParseItems(b, from, 2 * count)
    IN IF ~r.ok THEN r
       ELSE Parsed(Value("map", 0, <<>>,
                         [i \in 1..count |-> [k |-> r.val[2 * i - 1], v |-> r.val[2 * i]]]),
                   r.next)

\* one MessagePack value starting at position pos
ParseValue(b, pos) ==
    IF pos > Len(b) THEN ParseFail
    ELSE LET m == b[pos]
             left == Len(b) - pos
         IN IF m < 128 THEN Parsed(Value("uint", m, <<>>, <<>>), pos + 1)
            ELSE IF m < 144 THEN ParseMap(b, pos + 1, m - 128)
            ELSE IF m < 160 THEN ParseArray(b, pos + 1, m - 144)
            ELSE IF m < 192 THEN ParseStr(b, pos + 1, m - 160)
            ELSE IF m = 192 THEN Parsed(Value("nil", 0, <<>>, <<>>), pos + 1)
            ELSE IF m = 193 THEN ParseFail
            ELSE IF m = 194 \/ m = 195 THEN Parsed(Value("bool", m - 194, <<>>, <<>>), pos + 1)
            ELSE IF m = 204 THEN
                IF left < 1 THEN ParseFail
                ELSE Parsed(Value("uint", ReadLen(b, pos, 1), <<>>, <<>>), pos + 2)
            ELSE IF m = 205 THEN
                IF left < 2 THEN ParseFail
                ELSE Parsed(Value("uint", ReadLen(b, pos, 2), <<>>, <<>>), pos + 3)
            ELSE IF m = 206 THEN
                IF left < 4 THEN ParseFail
                ELSE IF b[pos + 1] >= 128 THEN ParseUnmodelled
                ELSE Parsed(Value("uint", ReadU32(b, pos), <<>>, <<>>), pos + 5)
            ELSE IF m = 217 THEN
                IF left < 1 THEN ParseFail
                ELSE ParseStr(b, pos + 2, ReadLen(b, pos, 1))
            ELSE IF m = 218 THEN
                IF left < 2 THEN ParseFail
                ELSE ParseStr(b, pos + 3, ReadLen(b, pos, 2))
            ELSE IF m = 220 THEN
                IF left < 2 THEN ParseFail
                ELSE ParseArray(b, pos + 3, ReadLen(b, pos, 2))
            ELSE IF m = 222 THEN
                IF left < 2 THEN ParseFail
                ELSE ParseMap(b, pos + 3, ReadLen(b, pos, 2))
            ELSE ParseUnmodelled

\* Result of several results: the values in order, or the error
\* (Unmodelled as soon as any part is)
Collect(rs) ==
    IF \E i \in 1..Len(rs) : ~rs[i].ok /\ rs[i].err = Unmodelled THEN Err(Unmodelled)
    ELSE IF \E i \in 1..Len(rs) : ~rs[i].ok THEN Err(RmpDecodeError)
    ELSE Ok([i \in 1..Len(rs) |-> Unwrap(rs[i])])

IsAscii(s) == \A i \in 1..Len(s) : s[i] < 128

\* String
DeString(v) ==
    IF v.t # "str" THEN Err(RmpDecodeError)
    ELSE IF ~IsAscii(v.s) THEN Err(Unmodelled)
    ELSE Ok(v.s)

\* u32 / u64
DeUint(v) == IF v.t = "uint" THEN Ok(v.n) ELSE Err(RmpDecodeError)

\* LicenseKind: the name of a unit variant
DeKind(v) ==
    IF v.t = "str" THEN
        IF \E k \in LicenseKind : VariantName(k) = v.s
        THEN Ok(CHOOSE k \in LicenseKind : VariantName(k) = v.s)
        ELSE Err(RmpDecodeError)
    ELSE IF v.t \in {"uint", "map", "array"} THEN Err(Unmodelled)
    ELSE Err(RmpDecodeError)

\* the entries of map v whose key names field f of names
Slot(v, names, f) ==
    {i \in 1..Len(v.items) : v.items[i].k.t = "str" /\ v.items[i].k.s = names[f]}

\* the derived visit_map: every field exactly once; the values of the fields
\* in the order of names
DeStruct(v, names) ==
    IF v.t = "array" THEN Err(Unmodelled)
    ELSE IF v.t # "map" THEN Err(RmpDecodeError)
    ELSE IF \E i \in 1..Len(v.items) : v.items[i].k.t # "str" THEN Err(Unmodelled)
    ELSE IF \E f \in 1..Len(names) : Cardinality(Slot(v, names, f)) # 1
         THEN Err(RmpDecodeError)
    ELSE Ok([f \in 1..Len(names) |-> v.items[CHOOSE i \in Slot(v, names, f) : TRUE].v])

\* LicensedProductData { id: String, min_version: u32, max_version: u32 }
DeProduct(v) ==
    LET s == DeStruct(v, LicensedProductDataFields)
    IN IF ~s.ok THEN s
       ELSE LET x == Unwrap(s)
                r == Collect(<<DeString(x[1]), DeUint(x[2]), DeUint(x[3])>>)
            IN IF ~r.ok THEN r
               ELSE Ok(LicensedProductData(Unwrap(r)[1], Unwrap(r)[2], Unwrap(r)[3]))

\* Vec<LicensedProductData>
DeProducts(v) ==
    IF v.t # "array" THEN Err(RmpDecodeError)
    ELSE Collect([i \in 1..Len(v.items) |-> DeProduct(v.items[i])])

\* LicensePayloadData { name: String, email: String, kind: LicenseKind,
\*                      created_on: u64, products: Vec<LicensedProductData> }
DePayload(v) ==
    LET s == DeStruct(v, LicensePayloadDataFields)
    IN IF ~s.ok THEN s
       ELSE LET x == Unwrap(s)
                r == Collect(<<DeString(x[1]), DeString(x[2]), DeKind(x[3]),
                               DeUint(x[4]), DeProducts(x[5])>>)
            IN IF ~r.ok THEN r
               ELSE Ok(LicensePayloadData(Unwrap(r)[1], Unwrap(r)[2], Unwrap(r)[3],
                                          Unwrap(r)[4], Unwrap(r)[5]))

\* LicenseData { payload: LicensePayloadData, signature: String }
DeLicenseData(v) ==
    LET s == DeStruct(v, LicenseDataFields)
    IN IF ~s.ok THEN s
       ELSE LET x == Unwrap(s)
                r == Collect(<<DePayload(x[1]), DeString(x[2])>>)
            IN IF ~r.ok THEN r ELSE Ok(LicenseData(Unwrap(r)[1], Unwrap(r)[2]))

\* rmp_serde::from_slice::<LicenseData>(bytes)
from_slice(bytes) ==
    LET p == ParseValue(bytes, 1)
    IN IF p.ok THEN DeLicenseData(p.val)
       ELSE IF p.unm THEN Err(Unmodelled)
       ELSE Err(RmpDecodeError)

(***************************************************************************)
(* impl LicenseData: to_key and try_from_key                               *)
(***************************************************************************)
\* the outcome of a call that cannot return an error: its value, or a panic
Returned(v) == [ok |-> TRUE, val |-> <<v>>, err |-> NoError]
Panicked(e) == [ok |-> FALSE, val |-> <<>>, err |-> GenericError("panic", {e.type})]

\* try_from_key refusing a decoded record whose name, product list or
\* signature is empty
try_from_key_validating(k) ==
    LET bytes == Base64Decode(k)
    IN IF ~bytes.ok THEN Err(bytes.err)
       ELSE LET d == from_slice(Unwrap(bytes))
            IN IF ~d.ok THEN Err(d.err)
               ELSE IF Len(Unwrap(d).payload.name) = 0
                       \/ Len(Unwrap(d).payload.products) = 0
                       \/ Len(Unwrap(d).signature) = 0
                    THEN Err(GenericError("validator::ValidationErrors", {}))
                    ELSE Ok(Unwrap(d))

\* try_from_key with an engine indifferent to padding: '=' at the end is dropped
try_from_key_padding(k) ==
    LET n == Len(k)
        text == IF n >= 2 /\ k[n] = 61 /\ k[n - 1] = 61 THEN SubSeq(k, 1, n - 2)
                ELSE IF n >= 1 /\ k[n] = 61 THEN SubSeq(k, 1, n - 1)
                ELSE k
        bytes == Base64Decode(text)
    IN IF ~bytes.ok THEN Err(bytes.err)
       ELSE LET d == from_slice(Unwrap(bytes))
            IN IF ~d.ok THEN Err(d.err) ELSE Ok(Unwrap(d))


try_from_key(k) ==
    LET bytes == Base64Decode(k)
    IN IF ~bytes.ok THEN Err(bytes.err)
       ELSE LET d == from_slice(Unwrap(bytes))
            IN IF ~d.ok THEN Err(d.err) ELSE Ok(Unwrap(d))

\* to_key with the STANDARD engine: '+', '/' and padding
to_key_standard(d) ==
    LET bytes == to_vec_named(d)
    IN IF ~bytes.ok THEN Panicked(bytes.err)
       ELSE Returned(LicenseKey(Base64EncodeStandard(Unwrap(bytes))))


to_key(d) ==
    LET bytes == to_vec_named(d)
    IN IF ~bytes.ok THEN Panicked(bytes.err)
       ELSE Returned(LicenseKey(Base64Encode(Unwrap(bytes))))

(***************************************************************************)
(* Validation: the validate attributes of the three structs.               *)
(* An error names the struct and field it is reported on (index: the       *)
(* position of the product in `products`, 0 elsewhere) and its code.       *)
(***************************************************************************)
ValidationError(struct, index, field, code) ==
    [struct |-> struct, index |-> index, field |-> field, code |-> code]

\* #[validate(length(min = 1))]
validate_length(s) == Len(s) >= 1

IsAlnum(c) == (c >= 97 /\ c <= 122) \/ (c >= 65 /\ c <= 90) \/ (c >= 48 /\ c <= 57)

\* EMAIL_USER_RE: one or more of a-z 0-9 . ! # $ % & ' * + / = ? ^ _ ` { | } ~ -
EmailUser(u) ==
    /\ Len(u) >= 1
    /\ \A i \in 1..Len(u) :
          IsAlnum(u[i])
          \/ u[i] \in {46, 33, 35, 36, 37, 38, 39, 42, 43, 47, 61, 63, 94, 95, 96,
                       123, 124, 125, 126, 45}

\* EMAIL_DOMAIN_RE: labels separated by '.', each 1 to 63 of a-z 0-9 '-',
\* beginning and ending with a letter or digit
EmailDomain(d) ==
    /\ Len(d) >= 1
    /\ \A i \in 1..Len(d) : IsAlnum(d[i]) \/ d[i] = 45 \/ d[i] = 46
    /\ IsAlnum(d[1]) /\ IsAlnum(d[Len(d)])
    /\ \A i \in 1..Len(d) :
          d[i] = 46 => (IsAlnum(d[i - 1]) /\ IsAlnum(d[i + 1]))
    /\ \A i \in 1..(Len(d) - 63) : \E j \in i..(i + 63) : d[j] = 46

\* #[validate(email)]: validator::validate_email on ASCII text without an
\* address literal: split at the last '@', check both parts
validate_email(val) ==
    /\ \E i \in 1..Len(val) : val[i] = 64
    /\ LET at == CHOOSE i \in 1..Len(val) :
                    val[i] = 64 /\ \A j \in (i + 1)..Len(val) : val[j] # 64
           user_part == SubSeq(val, 1, at - 1)
           domain_part == SubSeq(val, at + 1, Len(val))
       IN /\ Len(user_part) <= 64
          /\ Len(domain_part) <= 255
          /\ EmailUser(user_part)
          /\ EmailDomain(domain_part)

\* the comparison of validate_product the wrong way round
validate_product_inverted(product) ==
    IF product.min_version < product.max_version
    THEN {"invalid_version_range"}
    ELSE {}

\* fn validate_product: the schema rule of LicensedProductData
validate_product(product) ==
    IF product.min_version > product.max_version
    THEN {"invalid_version_range"}
    ELSE {}

\* LicensedProductData::validate: the field rules, then the schema rule when
\* no field rule failed
ValidateProduct(product, index) ==
    LET fields == IF validate_length(product.id) THEN {}
                  ELSE {ValidationError("LicensedProductData", index, "id", "length")}
    IN IF fields # {} THEN fields
       ELSE {ValidationError("LicensedProductData", index, "__all__", code) :
                code \in validate_product(product)}

\* LicensePayloadData::validate
ValidatePayload(payload) ==
    (IF validate_length(payload.name) THEN {}
     ELSE {ValidationError("LicensePayloadData", 0, "name", "length")})
    \cup (IF validate_email(payload.email) THEN {}
          ELSE {ValidationError("LicensePayloadData", 0, "email", "email")})
    \cup (IF validate_length(payload.products) THEN {}
          ELSE {ValidationError("LicensePayloadData", 0, "products", "length")})
    \cup UNION {ValidateProduct(payload.products[i], i) : i \in 1..Len(payload.products)}

\* LicenseData::validate
Validate(d) ==
    ValidatePayload(d.payload)
    \cup (IF validate_length(d.signature) THEN {}
          ELSE {ValidationError("LicenseData", 0, "signature", "length")})

ValidationErrors(errors) == GenericError("validator::ValidationErrors", errors)

(***************************************************************************)
(* The bridge between the persisted data and the domain License            *)
(***************************************************************************)
\* impl From<LicensedProduct> for LicensedProductData
LicensedProductData_from(value) ==
    LicensedProductData(value.id, value.min_version, value.max_version)

\* impl From<LicensePayload> for LicensePayloadData
LicensePayloadData_from(value) ==
    LicensePayloadData(value.name, value.email, value.kind, value.created_on,
                       [i \in 1..Len(value.products) |->
                           LicensedProductData_from(value.products[i])])

\* From<License> writing the signature with the STANDARD engine
LicenseData_from_standard(value) ==
    Returned(LicenseData(LicensePayloadData_from(value.payload),
                         Base64EncodeStandard(value.signature)))

\* impl From<License> for LicenseData
LicenseData_from(value) ==
    Returned(LicenseData(LicensePayloadData_from(value.payload),
                         Base64Encode(value.signature)))

\* impl TryFrom<LicensePayloadData> for LicensePayload
LicensePayload_try_from(d) ==
    IF ValidatePayload(d) # {} THEN Err(ValidationErrors(ValidatePayload(d)))
    ELSE Ok(LicensePayload(d.name, d.email, d.kind, d.created_on,
                           [i \in 1..Len(d.products) |->
                               LicensedProduct(d.products[i].id,
                                               d.products[i].min_version,
                                               d.products[i].max_version)]))

\* TryFrom<LicenseData> decoding the signature before it validates
License_try_from_decode_first(d) ==
    LET signature == Base64Decode(d.signature)
    IN IF ~signature.ok THEN Err(signature.err)
       ELSE IF Validate(d) # {} THEN Err(ValidationErrors(Validate(d)))
       ELSE LET payload == LicensePayload_try_from(d.payload)
            IN IF ~payload.ok THEN Err(payload.err)
               ELSE Ok(License(Unwrap(payload), Unwrap(signature)))

\* impl TryFrom<LicenseData> for License
License_try_from(d) ==
    IF Validate(d) # {} THEN Err(ValidationErrors(Validate(d)))
    ELSE LET payload == LicensePayload_try_from(d.payload)
         IN IF ~payload.ok THEN Err(payload.err)
            ELSE LET signature == Base64Decode(d.signature)
                 IN IF ~signature.ok THEN Err(signature.err)
                    ELSE Ok(License(Unwrap(payload), Unwrap(signature)))

(***************************************************************************)
(* Inputs: the records, keys and licenses a caller starts from             *)
(***************************************************************************)
MaxProducts == 2
MaxCut == 6

\* "Joe", "joe@example.org", "joe", "joe@localhost", "foo"
Joe == <<74, 111, 101>>
JoeEmail == <<106, 111, 101, 64, 101, 120, 97, 109, 112, 108, 101, 46, 111, 114, 103>>
JoeOnly == <<106, 111, 101>>
JoeLocal == <<106, 111, 101, 64, 108, 111, 99, 97, 108, 104, 111, 115, 116>>
Foo == <<102, 111, 111>>
\* a product id too long for a fixstr header
LongId == [i \in 1..40 |-> 97 + (i % 26)]

\* signature texts: "", "aGVsbG8" (the bytes "hello"), "aGVsbG9" (the same
\* bytes with non-zero trailing bits), "00010a" (hexadecimal), "aGVsbG8="
SigHello == <<97, 71, 86, 115, 98, 71, 56>>
SigHelloLoose == <<97, 71, 86, 115, 98, 71, 57>>
SigHex == <<48, 48, 48, 49, 48, 97>>
SigPadded == <<97, 71, 86, 115, 98, 71, 56, 61>>

\* the record of the tests to_key and from_key, and that of successful_deserialization
TestData ==
    LicenseData(LicensePayloadData(Joe, JoeEmail, "Personal", 0,
                                   <<LicensedProductData(Foo, 1, 1)>>), SigHex)
GoodData ==
    LicenseData(LicensePayloadData(Joe, JoeEmail, "Personal", 0,
                                   <<LicensedProductData(Foo, 1, 1)>>), SigHello)

\* name, email, kind and creation time (0, or a time of 2023: a uint 32):
\* two that satisfy the rules, one with an empty name, one with a bad email
Owners ==
    {<<Joe, JoeEmail, "Personal", 0>>, <<Joe, JoeLocal, "Commercial", 1700000000>>,
     <<<<>>, JoeEmail, "Commercial", 1700000000>>, <<Joe, JoeOnly, "Personal", 0>>}
Products ==
    {LicensedProductData(Foo, 1, 1), LicensedProductData(LongId, 200, 300),
     LicensedProductData(<<>>, 1, 1), LicensedProductData(Foo, 2, 1)}
ProductLists == UNION {[1..n -> Products] : n \in 0..MaxProducts}
Signatures == {<<>>, SigHello, SigHelloLoose}

Records ==
    {LicenseData(LicensePayloadData(o[1], o[2], o[3], o[4], ps), sg) :
        o \in Owners, ps \in ProductLists, sg \in Signatures}
    \cup {TestData, LicenseData(GoodData.payload, SigPadded)}

\* domain licenses: License::new takes any payload and any signature bytes
SignatureBytes == {<<>>, <<251, 255>>}
Licenses ==
    {License(LicensePayload(o[1], o[2], o[3], o[4], ps), sg) :
        o \in Owners \ {<<Joe, JoeEmail, "Personal", 0>>},
        ps \in ProductLists, sg \in SignatureBytes}

\* the key the test to_key expects and the test from_key decodes
TestKey ==
    <<103, 113, 100, 119, 89, 88, 108, 115, 98, 50, 70, 107, 104, 97, 82, 117,
      89, 87, 49, 108, 111, 48, 112, 118, 90, 97, 86, 108, 98, 87, 70, 112, 98,
      75, 57, 113, 98, 50, 86, 65, 90, 88, 104, 104, 98, 88, 66, 115, 90, 83,
      53, 118, 99, 109, 101, 107, 97, 50, 108, 117, 90, 75, 104, 81, 90, 88,
      74, 122, 98, 50, 53, 104, 98, 75, 112, 106, 99, 109, 86, 104, 100, 71,
      86, 107, 88, 50, 57, 117, 65, 75, 104, 119, 99, 109, 57, 107, 100, 87,
      78, 48, 99, 53, 71, 68, 111, 109, 108, 107, 111, 50, 90, 118, 98, 54,
      116, 116, 97, 87, 53, 102, 100, 109, 86, 121, 99, 50, 108, 118, 98, 103,
      71, 114, 98, 87, 70, 52, 88, 51, 90, 108, 99, 110, 78, 112, 98, 50, 52,
      66, 113, 88, 78, 112, 90, 50, 53, 104, 100, 72, 86, 121, 90, 97, 89, 119,
      77, 68, 65, 120, 77, 71, 69>>

\* The v1 generation's token of the record name "Joe", email
\* "joe@example.org", kind Personal, one product {id "foo", min 1, max 1},
\* signature "00010a": the standard-alphabet padded base64 text of the JSON
\* {"payload":{"name":"Joe","email":"joe@example.org","kind":"Personal",
\*  "products":[{"id":"foo","min_version":1,"max_version":1}]},
\*  "signature":"00010a"}
V1Json ==
    <<123, 34, 112, 97, 121, 108, 111, 97, 100, 34, 58, 123, 34, 110, 97, 109,
      101, 34, 58, 34, 74, 111, 101, 34, 44, 34, 101, 109, 97, 105, 108, 34,
      58, 34, 106, 111, 101, 64, 101, 120, 97, 109, 112, 108, 101, 46, 111,
      114, 103, 34, 44, 34, 107, 105, 110, 100, 34, 58, 34, 80, 101, 114, 115,
      111, 110, 97, 108, 34, 44, 34, 112, 114, 111, 100, 117, 99, 116, 115,
      34, 58, 91, 123, 34, 105, 100, 34, 58, 34, 102, 111, 111, 34, 44, 34,
      109, 105, 110, 95, 118, 101, 114, 115, 105, 111, 110, 34, 58, 49, 44,
      34, 109, 97, 120, 95, 118, 101, 114, 115, 105, 111, 110, 34, 58, 49,
      125, 93, 125, 44, 34, 115, 105, 103, 110, 97, 116, 117, 114, 101, 34,
      58, 34, 48, 48, 48, 49, 48, 97, 34, 125>>
\* the same with "created_on":0 after "kind"
V1JsonCreated ==
    SubSeq(V1Json, 1, 69)
    \o <<34, 99, 114, 101, 97, 116, 101, 100, 95, 111, 110, 34, 58, 48, 44>>
    \o SubSeq(V1Json, 70, Len(V1Json))
V1Keys == {Base64EncodeStandard(V1Json), Base64EncodeStandard(V1JsonCreated)}

\* Keys whose text is no URL-safe unpadded base64: the key of GoodData with one
\* symbol replaced by '+', '/', '=', ' ' or '*', with padding appended, or cut
\* to a length that is 1 mod 4
GoodKey == Unwrap(to_key(GoodData))
CutPoints == {1 + (i * Len(GoodKey)) \div (MaxCut + 1) : i \in 0..MaxCut}
BadTextKeys ==
    {[GoodKey EXCEPT ![i] = c] : i \in CutPoints, c \in {43, 47, 61, 32, 42}}
    \cup {GoodKey \o <<61, 61>>, GoodKey \o <<61>>}
    \cup {SubSeq(GoodKey, 1, 4 * ((i - 1) \div 4) + 1) : i \in CutPoints}

\* Byte strings that are no complete LicenseData, as the MessagePack of
\* GoodData changed in one place:
GoodBytes == Unwrap(to_vec_named(GoodData))
GoodPayload == GoodData.payload
PayloadEntry(f, bytes) == WriteStr(LicensePayloadDataFields[f]) \o bytes
NameEntry == PayloadEntry(1, WriteStr(GoodPayload.name))
EmailEntry == PayloadEntry(2, WriteStr(GoodPayload.email))
KindEntry == PayloadEntry(3, WriteStr(VariantName(GoodPayload.kind)))
CreatedOnEntry == PayloadEntry(4, WriteUint(GoodPayload.created_on))
ProductsEntry ==
    PayloadEntry(5, WriteArrayLen(1) \o SerializeProducts(GoodPayload.products))
WithPayload(count, entries) ==
    WriteMapLen(2)
    \o WriteStr(LicenseDataFields[1]) \o WriteMapLen(count) \o entries
    \o WriteStr(LicenseDataFields[2]) \o WriteStr(GoodData.signature)

\* the payload without its created_on entry
NoCreatedOnBytes ==
    WithPayload(4, NameEntry \o EmailEntry \o KindEntry \o ProductsEntry)

BadBytes ==
    \* truncated
    {SubSeq(GoodBytes, 1, (i * Len(GoodBytes)) \div (MaxCut + 1)) : i \in 0..MaxCut}
    \* a required field missing: name, created_on, products, signature
    \cup {WithPayload(4, EmailEntry \o KindEntry \o CreatedOnEntry \o ProductsEntry),
          NoCreatedOnBytes,
          WithPayload(4, NameEntry \o EmailEntry \o KindEntry \o CreatedOnEntry),
          WriteMapLen(1) \o WriteStr(LicenseDataFields[1]) \o SerializePayload(GoodPayload)}
    \* a field of the wrong type: name a number, created_on a string,
    \* products nil, kind no variant, the whole value a string
    \cup {WithPayload(5, PayloadEntry(1, WriteUint(7)) \o EmailEntry \o KindEntry
                         \o CreatedOnEntry \o ProductsEntry),
          WithPayload(5, NameEntry \o EmailEntry \o KindEntry
                         \o PayloadEntry(4, WriteStr(Foo)) \o ProductsEntry),
          WithPayload(5, NameEntry \o EmailEntry \o KindEntry \o CreatedOnEntry
                         \o PayloadEntry(5, <<192>>)),
          WithPayload(5, NameEntry \o EmailEntry \o PayloadEntry(3, WriteStr(Foo))
                         \o CreatedOnEntry \o ProductsEntry),
          WriteStr(Foo)}
    \* a field twice
    \cup {WithPayload(6, NameEntry \o EmailEntry \o KindEntry \o CreatedOnEntry
                         \o ProductsEntry \o NameEntry)}
BadBytesKeys == {Base64Encode(b) : b \in BadBytes}

\* complete byte strings in another shape than to_vec_named writes: the
\* entries in another order, an unknown entry, bytes after the value
OtherBytes ==
    {WithPayload(5, ProductsEntry \o CreatedOnEntry \o KindEntry \o EmailEntry
                    \o NameEntry),
     WithPayload(6, NameEntry \o EmailEntry \o WriteStr(Foo) \o WriteArrayLen(2)
                    \o <<192, 195>> \o KindEntry \o CreatedOnEntry \o ProductsEntry),
     GoodBytes \o <<0, 193>>}
OtherKeys == {Base64Encode(b) : b \in OtherBytes}

RawKeys == {TestKey} \cup V1Keys \cup BadTextKeys \cup BadBytesKeys \cup OtherKeys

(***************************************************************************)
(* The caller: holds a record, a key and a license, each possibly absent,  *)
(* and applies the operations of persistence.rs to what it holds.  `last`  *)
(* is the latest call (operation, argument, outcome), `prev` the one       *)
(* before.                                                                 *)
(***************************************************************************)
Call(op, arg, res) == [op |-> op, arg |-> <<arg>>, res |-> res]
NoCall == [op |-> "none", arg |-> <<>>, res |-> Returned(0)]

Init ==
    /\ prev = NoCall
    /\ \/ \E d \in Records :
            /\ data = Some(d) /\ key = None /\ license = None
            /\ last = Call("LicenseData", 0, Returned(d))
       \/ \E raw_key \in RawKeys :
            /\ data = None /\ key = Some(LicenseKey(raw_key)) /\ license = None
            /\ last = Call("LicenseKey::new", raw_key, Returned(LicenseKey(raw_key)))
       \/ \E l \in Licenses :
            /\ data = None /\ key = None /\ license = Some(l)
            /\ last = Call("License::new", 0, Returned(l))

\* data.to_key()
ToKey ==
    /\ data # None
    /\ \E res \in {to_key(data[1])} :
          /\ key' = IF res.ok THEN Some(Unwrap(res)) ELSE key
          /\ last' = Call("to_key", data[1], res)
    /\ prev' = last
    /\ UNCHANGED <<data, license>>

\* LicenseData::try_from_key(&key)
TryFromKey ==
    /\ key # None
    /\ \E res \in {try_from_key(key[1])} :
          /\ data' = IF res.ok THEN Some(Unwrap(res)) ELSE data
          /\ last' = Call("try_from_key", key[1], res)
    /\ prev' = last
    /\ UNCHANGED <<key, license>>

\* License::try_from(data)
TryFrom ==
    /\ data # None
    /\ \E res \in {License_try_from(data[1])} :
          /\ license' = IF res.ok THEN Some(Unwrap(res)) ELSE license
          /\ last' = Call("License::try_from", data[1], res)
    /\ prev' = last
    /\ UNCHANGED <<data, key>>

\* LicenseData::from(license)
From ==
    /\ license # None
    /\ \E res \in {LicenseData_from(license[1])} :
          /\ data' = IF res.ok THEN Some(Unwrap(res)) ELSE data
          /\ last' = Call("LicenseData::from", license[1], res)
    /\ prev' = last
    /\ UNCHANGED <<key, license>>

Next == ToKey \/ TryFromKey \/ TryFrom \/ From

Spec == Init /\ [][Next]_vars
(***************************************************************************)
(* Properties                                                              *)
(***************************************************************************)
\* The validation rules as the data model states them, each violated rule as
\* the error that reports it.
PayloadViolations(p) ==
    (IF Len(p.name) = 0
     THEN {ValidationError("LicensePayloadData", 0, "name", "length")} ELSE {})
    \cup (IF validate_email(p.email)
          THEN {} ELSE {ValidationError("LicensePayloadData", 0, "email", "email")})
    \cup (IF Len(p.products) = 0
          THEN {ValidationError("LicensePayloadData", 0, "products", "length")} ELSE {})
    \cup {ValidationError("LicensedProductData", i, "id", "length") :
             i \in {j \in 1..Len(p.products) : Len(p.products[j].id) = 0}}
    \cup {ValidationError("LicensedProductData", i, "__all__", "invalid_version_range") :
             i \in {j \in 1..Len(p.products) :
                       p.products[j].min_version > p.products[j].max_version}}

RuleViolations(r) ==
    PayloadViolations(r.payload)
    \cup (IF Len(r.signature) = 0
          THEN {ValidationError("LicenseData", 0, "signature", "length")} ELSE {})

Did(call, op) == call.op = op
Arg(call) == call.arg[1]

\* C1: when to_key has encoded a record that satisfies every validation rule
\* and try_from_key then decodes that key, the decoding succeeds and returns
\* the record, equal field for field.
C1_RoundTrip ==
    (/\ Did(last, "try_from_key") /\ Did(prev, "to_key")
     /\ RuleViolations(Arg(prev)) = {})
    => (last.res.ok /\ Unwrap(last.res) = Arg(prev))

C1_Witness ==
    /\ Did(last, "try_from_key") /\ Did(prev, "to_key")
    /\ RuleViolations(Arg(prev)) = {}
    /\ Len(Arg(prev).payload.products) = 2
    /\ Arg(prev).payload.products[1].id = LongId
    /\ Arg(prev).payload.products[2].id = Foo
    /\ Arg(prev).payload.created_on = 1700000000
    /\ last.res.ok

\* C2: when License::try_from is given a record that violates exactly one
\* validation rule, it fails with the validation errors that name exactly
\* that rule, and returns no license.
C2_EachRuleRejects ==
    (Did(last, "License::try_from") /\ Cardinality(RuleViolations(Arg(last))) = 1)
    => (/\ ~last.res.ok
        /\ last.res.val = <<>>
        /\ last.res.err = ValidationErrors(RuleViolations(Arg(last))))

\* such a call: a product's version range is the single violated rule
C2_Witness ==
    /\ Did(last, "License::try_from")
    /\ Cardinality(RuleViolations(Arg(last))) = 1
    /\ ~last.res.ok
    /\ \E e \in RuleViolations(Arg(last)) : e.field = "__all__"

\* C3: License::try_from returns a license only for a record that violates
\* no validation rule, and a record that violates a rule and whose
\* signature text does not decode is refused for the rule, not for the
\* signature.
C3_ValidationFirst ==
    Did(last, "License::try_from")
    => (/\ last.res.ok => RuleViolations(Arg(last)) = {}
        /\ (RuleViolations(Arg(last)) # {} /\ ~Base64Decode(Arg(last).signature).ok)
           => (~last.res.ok /\ last.res.err.type = "validator::ValidationErrors"))

C3_Witness ==
    /\ Did(last, "License::try_from")
    /\ RuleViolations(Arg(last)) # {}
    /\ Arg(last).signature = SigHelloLoose
    /\ ~last.res.ok
    /\ last.res.err.type = "validator::ValidationErrors"

\* C4, as claimed: when LicenseData::from has converted a license whose
\* payload satisfies the validation rules and License::try_from then
\* converts the record back, the conversion succeeds and returns that license.
C4_AsClaimed ==
    (/\ Did(last, "License::try_from") /\ Did(prev, "LicenseData::from")
     /\ PayloadViolations(Arg(prev).payload) = {})
    => (last.res.ok /\ Unwrap(last.res) = Arg(prev))

\* C4, amended: the same for a license whose payload satisfies the validation
\* rules and whose signature has at least one byte.
C4_DomainRoundTrip ==
    (/\ Did(last, "License::try_from") /\ Did(prev, "LicenseData::from")
     /\ PayloadViolations(Arg(prev).payload) = {}
     /\ Len(Arg(prev).signature) >= 1)
    => (last.res.ok /\ Unwrap(last.res) = Arg(prev))

C4_Witness ==
    /\ Did(last, "License::try_from") /\ Did(prev, "LicenseData::from")
    /\ PayloadViolations(Arg(prev).payload) = {}
    /\ Arg(prev).signature = <<251, 255>>
    /\ Len(Arg(prev).payload.products) = 2
    /\ last.res.ok

\* C5: when License::try_from has converted a record and LicenseData::from
\* then converts the license back, the result is that record, signature
\* text and created_on included.
C5_RecordRoundTrip ==
    (/\ Did(last, "LicenseData::from") /\ Did(prev, "License::try_from")
     /\ prev.res.ok)
    => (last.res.ok /\ Unwrap(last.res) = Arg(prev))

C5_Witness ==
    /\ Did(last, "LicenseData::from") /\ Did(prev, "License::try_from")
    /\ prev.res.ok
    /\ Arg(prev).signature = SigHello
    /\ Arg(prev).payload.created_on = 1700000000
    /\ Unwrap(last.res) = Arg(prev)

\* C6: try_from_key decodes a token of the v1 generation into the record
\* name "Joe", email "joe@example.org", kind Personal, one product
\* {id "foo", min 1, max 1}, signature "00010a".
C6_LegacyDecodes ==
    (Did(last, "try_from_key") /\ Arg(last) \in V1Keys)
    => (/\ last.res.ok
        /\ Unwrap(last.res).payload.name = Joe
        /\ Unwrap(last.res).payload.email = JoeEmail
        /\ Unwrap(last.res).payload.kind = "Personal"
        /\ Unwrap(last.res).payload.products = <<LicensedProductData(Foo, 1, 1)>>
        /\ Unwrap(last.res).signature = SigHex)

C8_EncodingTotal ==
    /\ Did(last, "to_key") => (last.res.ok /\ key = Some(Unwrap(last.res)))
    /\ Did(last, "LicenseData::from") => (last.res.ok /\ data = Some(Unwrap(last.res)))

C8_Witness ==
    /\ Did(last, "to_key")
    /\ Arg(last).payload.name = <<>>
    /\ Len(Arg(last).payload.products) = 2
    /\ Arg(last).payload.products[1].id = LongId
    /\ Arg(last).signature = <<>>
    /\ last.res.ok

\* C9: try_from_key succeeds on bytes whose payload has no created_on entry,
\* and a creation time that is present is carried into the license unchanged.
C9_MissingTimestampDecodes ==
    /\ (Did(last, "try_from_key") /\ Arg(last) = Base64Encode(NoCreatedOnBytes))
       => last.res.ok
    /\ (Did(last, "License::try_from") /\ last.res.ok)
       => Unwrap(last.res).payload.created_on = Arg(last).payload.created_on

\* C10: try_from_key returns the record unchanged also when the record
\* encoded by to_key violates validation rules, and License::try_from then
\* refuses the decoded record with the validation errors.
C10_DecodeDoesNotValidate ==
    /\ (/\ Did(last, "try_from_key") /\ Did(prev, "to_key")
        /\ RuleViolations(Arg(prev)) # {})
       => (last.res.ok /\ Unwrap(last.res) = Arg(prev))
    /\ (/\ Did(last, "License::try_from") /\ Did(prev, "try_from_key")
        /\ prev.res.ok /\ RuleViolations(Unwrap(prev.res)) # {})
       => (/\ Arg(last) = Unwrap(prev.res)
           /\ ~last.res.ok
           /\ last.res.err.type = "validator::ValidationErrors")

C10_Witness ==
    /\ Did(last, "License::try_from") /\ Did(prev, "try_from_key")
    /\ prev.res.ok
    /\ Unwrap(prev.res).payload.name = <<>>
    /\ Unwrap(prev.res).payload.products = <<>>
    /\ ~last.res.ok

\* what the source's tests assert, and no input leaves the modelled forms
TestsHold ==
    /\ to_key(TestData) = Returned(TestKey)
    /\ try_from_key(TestKey) = Ok(TestData)
    /\ License_try_from(GoodData).ok
    /\ Unwrap(License_try_from(GoodData)).signature = <<104, 101, 108, 108, 111>>
    /\ LicenseData_from(Unwrap(License_try_from(GoodData))) = Returned(GoodData)
    /\ last.res.err # Unmodelled
====
